---- MODULE Spec2Model ----
(***************************************************************************)
(* Model of the optics reflection task generator (src/src/generator.py,    *)
(* src/src/prompts.py).  The generator keeps almost no state of its own:   *)
(* self.config and self.video_generator.  Every other variable below holds *)
(* the argument and the return value of the most recent call, so that the  *)
(* properties of the sampling, rendering and animation code can be stated  *)
(* over reachable states.  Three further variables hold what calls made    *)
(* at the same time have in common: the generator of the random module,    *)
(* the temporary video directory, and the position and the locals of each  *)
(* caller inside generate_task_pair.                                       *)
(*                                                                         *)
(* Numbers.  Python floats are modelled by exact rationals [n, d] in       *)
(* lowest terms.  Angles are carried in centidegrees; math.radians turns   *)
(* them into milliradians; math.tan and math.cos are looked up in a table  *)
(* of directions (sn, cs, h) with tan = sn/cs and cos = cs/h.  Directions  *)
(* from Pythagorean triples are exact, the 30 and 80 degree entries are    *)
(* three-digit approximations.                                             *)
(***************************************************************************)
EXTENDS Integers, Sequences, FiniteSets, TLC

VARIABLES
    config,           \* self.config (TaskConfig)
    available,        \* what VideoGenerator.is_available() answers
    video_generator,  \* self.video_generator
    pc,               \* "new" before __init__, "ready" between calls,
                      \* "returned" when a call has handed back its result
    op,               \* name of the most recent call
    task_data,        \* scenario of the most recent call
    first_image,      \* image returned by _render_initial_state
    final_image,      \* image returned by _render_final_state
    anim,             \* arguments, frames and per-frame progress of the last animation
    task_pair,        \* TaskPair returned by generate_task_pair
    rng,              \* state of the generator behind random.uniform and random.choice
    calls,            \* per caller: its position in generate_task_pair and its locals
    tmp               \* the directory tempfile.gettempdir()/<domain>_videos

vars == <<config, available, video_generator, pc, op, task_data,
          first_image, final_image, anim, task_pair, rng, calls, tmp>>

-----------------------------------------------------------------------------
(* Bounds of the model *)

MaxHold == 1          \* hold_frames ranges over 0..MaxHold
MaxTransition == 5    \* transition_frames ranges over -1..MaxTransition
MaxSeed == 1          \* the random generator is seeded with one of 0..MaxSeed

-----------------------------------------------------------------------------
(* Float arithmetic as exact rationals *)

Abs(x) == IF x < 0 THEN -x ELSE x

RECURSIVE GCD(_, _)
GCD(a, b) == IF b = 0 THEN a ELSE GCD(b, a % b)

\* n / d, d # 0, in lowest terms with a positive denominator
Rat(n, d) ==
    LET g == GCD(Abs(n), Abs(d))
        s == IF (n < 0) # (d < 0) THEN -1 ELSE 1
    IN  [n |-> s * (Abs(n) \div g), d |-> Abs(d) \div g]

I(k) == [n |-> k, d |-> 1]

RAdd(a, b) == Rat(a.n * b.d + b.n * a.d, a.d * b.d)
RSub(a, b) == Rat(a.n * b.d - b.n * a.d, a.d * b.d)
RMul(a, b) == Rat(a.n * b.n, a.d * b.d)
RDiv(a, b) == Rat(a.n * b.d, a.d * b.n)
RLe(a, b) == a.n * b.d <= b.n * a.d
RLt(a, b) == a.n * b.d < b.n * a.d
RMax(a, b) == IF RLe(a, b) THEN b ELSE a
RMin(a, b) == IF RLe(a, b) THEN a ELSE b

-----------------------------------------------------------------------------
(* Trigonometry *)

\* cdeg: the angle in centidegrees; tan = sn/cs, cos = cs/h, sin = sn/h
TrigTable ==
    { [cdeg |-> 0,     sn |-> 0,   cs |-> 1,   h |-> 1],
      [cdeg |-> 1626,  sn |-> 7,   cs |-> 24,  h |-> 25],
      [cdeg |-> 3000,  sn |-> 500, cs |-> 866, h |-> 1000],
      [cdeg |-> 3687,  sn |-> 3,   cs |-> 4,   h |-> 5],
      [cdeg |-> 5313,  sn |-> 4,   cs |-> 3,   h |-> 5],
      [cdeg |-> 7374,  sn |-> 24,  cs |-> 7,   h |-> 25],
      [cdeg |-> 8000,  sn |-> 985, cs |-> 174, h |-> 1000],
      [cdeg |-> -3687, sn |-> -3,  cs |-> 4,   h |-> 5],
      [cdeg |-> -7374, sn |-> -24, cs |-> 7,   h |-> 25] }

\* math.radians: degrees * pi / 180, here centidegrees to milliradians
radians(cdeg) ==
    (IF cdeg < 0 THEN -1 ELSE 1) * ((Abs(cdeg) * 3142) \div 18000)

\* math.degrees, the inverse conversion, milliradians to centidegrees
degrees(mrad) ==
    (IF mrad < 0 THEN -1 ELSE 1) * ((Abs(mrad) * 18000) \div 3142)

Direction(theta) == CHOOSE a \in TrigTable : radians(a.cdeg) = theta

tan(theta) == Rat(Direction(theta).sn, Direction(theta).cs)
cos(theta) == Rat(Direction(theta).cs, Direction(theta).h)

-----------------------------------------------------------------------------
(* Configuration *)

ThetaGrid == { a.cdeg : a \in TrigTable }
ReflectivityGrid == {10, 73, 90}             \* hundredths
ThetaEnds == {-7374, 8000}
ReflectivityEnds == {10, 90}
ImageSizes == { <<400, 400>>, <<299, 400>> }
TaskIds == {"task_0", "task_1"}

Configs ==
    [ reflectivity_min : ReflectivityEnds, reflectivity_max : ReflectivityEnds,
      theta_min : ThetaEnds, theta_max : ThetaEnds,
      image_size : ImageSizes,
      generate_videos : BOOLEAN,
      domain : {"optics_reflection"} ]

-----------------------------------------------------------------------------
(* Scenario sampler *)

\* random.uniform(a, b) = a + (b - a) * random(): every grid value between a
\* and b, whichever of the two is the larger
uniform(grid, a, b) ==
    { v \in grid : (a <= v /\ v <= b) \/ (b <= v /\ v <= a) }

\* mutant of Scenario: a weak mirror absorbs the ray, the reflected angle
\* is made to depend on the reflectivity
Scenario_Absorbing(reflectivity, theta_degrees) ==
    LET theta_radians == radians(theta_degrees)
        theta_reflected_degrees == IF reflectivity < 50 THEN 0 ELSE theta_degrees
        theta_reflected_radians == radians(theta_reflected_degrees)
    IN  [ reflectivity |-> reflectivity,
          theta_incident_degrees |-> theta_degrees,
          theta_incident_radians |-> theta_radians,
          theta_reflected_degrees |-> theta_reflected_degrees,
          theta_reflected_radians |-> theta_reflected_radians,
          type |-> "default" ]

Scenario(reflectivity, theta_degrees) ==
    LET theta_radians == radians(theta_degrees)
        theta_reflected_degrees == theta_degrees
        theta_reflected_radians == theta_radians
    IN  [ reflectivity |-> reflectivity,
          theta_incident_degrees |-> theta_degrees,
          theta_incident_radians |-> theta_radians,
          theta_reflected_degrees |-> theta_reflected_degrees,
          theta_reflected_radians |-> theta_reflected_radians,
          type |-> "default" ]

\* the set of scenarios _generate_task_data can return under cfg
_generate_task_data(cfg) ==
    { Scenario(r, t) :
        r \in uniform(ReflectivityGrid, cfg.reflectivity_min, cfg.reflectivity_max),
        t \in uniform(ThetaGrid, cfg.theta_min, cfg.theta_max) }

NoData == [ type |-> "none" ]

-----------------------------------------------------------------------------
(* Raster images *)

\* An image is modelled by what is on top in each class of pixels.  The
\* classes are the pixels covered by one shape alone and the pixels where
\* shapes overlap: "junction" is the pixel (center_x, mirror_y), which the
\* mirror line, the normal and both rays cover; "hatch_normal" is where the
\* normal crosses the hatching; "incident_arc" is where the arc meets the
\* incident ray.
Regions ==
    { "mirror", "hatch", "hatch_normal", "junction", "normal",
      "incident", "incident_arc", "reflected", "arc", "label" }

Covers(kind) ==
    CASE kind = "mirror"    -> {"mirror", "junction"}
      [] kind = "hatch"     -> {"hatch", "hatch_normal"}
      [] kind = "incident"  -> {"incident", "incident_arc", "junction"}
      [] kind = "reflected" -> {"reflected", "junction"}
      [] kind = "normal"    -> {"normal", "hatch_normal", "junction"}
      [] kind = "arc"       -> {"arc", "incident_arc"}
      [] kind = "label"     -> {"label"}
      [] OTHER              -> {}

Pt(x, y) == <<x, y>>

\* one drawing call: what is drawn, its colour and line width, its two
\* defining points and one further parameter (count, angle or text)
Shape(kind, colour, width, a, b, extra) ==
    [kind |-> kind, colour |-> colour, width |-> width, a |-> a, b |-> b,
     extra |-> extra]

Background ==
    Shape("background", "white", 0, Pt(I(0), I(0)), Pt(I(0), I(0)), 0)

\* self.renderer.create_blank_image(bg_color=(255, 255, 255))
create_blank_image == [r \in Regions |-> Background]

\* a drawing call paints over whatever was there
Paint(img, s) ==
    [r \in Regions |-> IF r \in Covers(s.kind) THEN s ELSE img[r]]

RECURSIVE PaintAll(_, _)
PaintAll(img, shapes) ==
    IF shapes = <<>> THEN img
    ELSE PaintAll(Paint(img, Head(shapes)), Tail(shapes))

NoImage == [r \in Regions |-> Shape("none", "none", 0, Pt(I(0), I(0)), Pt(I(0), I(0)), 0)]

-----------------------------------------------------------------------------
(* Geometry shared by the renderers (each renderer repeats it in the code) *)

mirror_line_width == 3
hatch_spacing == 8
hatch_length == 15
normal_length == 30
angle_arc_radius == 40
ray_start_y == 50
arrow_length == 15

center_x(cfg) == cfg.image_size[1] \div 2
center_y(cfg) == cfg.image_size[2] \div 2

\* draw.line([(0, mirror_y), (width, mirror_y)], fill=(0, 0, 0), width=3)
MirrorLine(cfg) ==
    Shape("mirror", "black", mirror_line_width,
          Pt(I(0), I(center_y(cfg))), Pt(I(cfg.image_size[1]), I(center_y(cfg))), 0)

\* the num_hatches horizontal segments, from the first start to the last end
HorizontalHatches(cfg) ==
    LET num_hatches == cfg.image_size[1] \div hatch_spacing
        y1 == center_y(cfg) + 5
    IN  Shape("hatch", "grey100", 1, Pt(I(0), I(y1)),
              Pt(I((num_hatches - 1) * hatch_spacing + hatch_length), I(y1)),
              num_hatches)

\* the num_hatches diagonal segments; hatch_angle = 45, cos 45 = sin 45 = 0.707
DiagonalHatches(cfg) ==
    LET num_hatches == cfg.image_size[1] \div hatch_spacing
        y1 == center_y(cfg) + 5
        off == RMul(I(hatch_length), Rat(707, 1000))
    IN  Shape("hatch", "grey100", 1, Pt(I(0), I(y1)),
              Pt(RAdd(I((num_hatches - 1) * hatch_spacing), off), RAdd(I(y1), off)),
              num_hatches)

\* draw.line([(center_x, mirror_y - 30), (center_x, mirror_y + 30)], ...)
NormalLine(cfg) ==
    Shape("normal", "grey150", 1,
          Pt(I(center_x(cfg)), I(center_y(cfg) - normal_length)),
          Pt(I(center_x(cfg)), I(center_y(cfg) + normal_length)), 0)

\* _draw_arrow: the segment start -> end and the two arrowhead strokes at
\* end, which start and end determine
_draw_arrow(kind, start, end, colour, width) ==
    Shape(kind, colour, width, start, end, arrow_length)

\* mutant of IncidentRay: the start is put on the side the ray leaves to
IncidentRay_SameSide(cfg, td) ==
    LET theta == td.theta_incident_radians
        ray_length_above == center_y(cfg) - ray_start_y
        ray_start_x == RAdd(I(center_x(cfg)), RMul(I(ray_length_above), tan(theta)))
    IN  _draw_arrow("incident", Pt(ray_start_x, I(ray_start_y)),
                    Pt(I(center_x(cfg)), I(center_y(cfg))), "blue", 3)

\* the incident ray: its start is solved backward from the angle
IncidentRay(cfg, td) ==
    LET theta == td.theta_incident_radians
        ray_length_above == center_y(cfg) - ray_start_y
        ray_start_x == RSub(I(center_x(cfg)), RMul(I(ray_length_above), tan(theta)))
    IN  _draw_arrow("incident", Pt(ray_start_x, I(ray_start_y)),
                    Pt(I(center_x(cfg)), I(center_y(cfg))), "blue", 3)

\* draw.arc(bbox, start=-90 - degrees(theta), end=-90, ...)
AngleArc(cfg, td) ==
    LET theta == td.theta_incident_radians
        end_angle == -9000 - degrees(theta)
    IN  Shape("arc", "black", 2,
              Pt(I(center_x(cfg) - angle_arc_radius), I(center_y(cfg) - angle_arc_radius)),
              Pt(I(center_x(cfg) + angle_arc_radius), I(center_y(cfg) + angle_arc_radius)),
              end_angle)

\* f"{theta_degrees:.0f}": the angle rounded to whole degrees
FormatDegrees(cdeg) ==
    (IF cdeg < 0 THEN -1 ELSE 1) * ((Abs(cdeg) + 50) \div 100)

\* draw.text((label_x, label_y), "theta = X", ...)
AngleLabel(cfg, td) ==
    LET label_x == center_x(cfg) + angle_arc_radius + 10
        label_y == center_y(cfg) - angle_arc_radius
    IN  Shape("label", "black", 20, Pt(I(label_x), I(label_y)),
              Pt(I(label_x), I(label_y)), FormatDegrees(td.theta_incident_degrees))

\* the order of the drawing calls in _render_initial_state
_render_initial_state(cfg, td) ==
    PaintAll(create_blank_image,
             << MirrorLine(cfg), HorizontalHatches(cfg), DiagonalHatches(cfg),
                IncidentRay(cfg, td), NormalLine(cfg),
                AngleArc(cfg, td), AngleLabel(cfg, td) >>)

-----------------------------------------------------------------------------
(* Edge extension of the reflected ray, as written in _render_final_state *)

\* one entry of the intersections list: the tuple (x, y, distance); edge
\* names the branch that appended it
Candidate(x, y, dist, edge) == [x |-> x, y |-> y, dist |-> dist, edge |-> edge]

RECURSIVE InsertByDist(_, _)
InsertByDist(c, s) ==
    IF s = <<>> THEN <<c>>
    ELSE IF RLt(c.dist, Head(s).dist) THEN <<c>> \o s
    ELSE <<Head(s)>> \o InsertByDist(c, Tail(s))

\* intersections.sort(key=lambda x: x[2]): a stable sort on the third field
RECURSIVE SortByDist(_)
SortByDist(s) ==
    IF s = <<>> THEN <<>>
    ELSE InsertByDist(s[Len(s)], SortByDist(SubSeq(s, 1, Len(s) - 1)))

x_at_top(theta_reflected, cx, mirror_y) ==
    LET distance_to_top == mirror_y
    IN  RAdd(I(cx), RMul(I(distance_to_top), tan(theta_reflected)))

\* the list built by lines 237-268
Intersections(theta_reflected, width, cx, mirror_y) ==
    LET distance_to_top == mirror_y
        xtop == x_at_top(theta_reflected, cx, mirror_y)
        distance_to_right == width - cx
        y_at_right == RSub(I(mirror_y), RDiv(I(distance_to_right), tan(theta_reflected)))
        distance_to_left == cx
        y_at_left == RSub(I(mirror_y), RDiv(I(distance_to_left), tan(theta_reflected)))
        top == IF RLe(I(0), xtop) /\ RLe(xtop, I(width))
               THEN << Candidate(xtop, I(0),
                                 RDiv(I(distance_to_top), cos(theta_reflected)), "top") >>
               ELSE <<>>
        right == IF theta_reflected > 0
                    /\ RLe(I(0), y_at_right) /\ RLe(y_at_right, I(mirror_y))
                 THEN << Candidate(I(width), y_at_right,
                                   RDiv(I(distance_to_right), cos(theta_reflected)), "right") >>
                 ELSE <<>>
        left == IF theta_reflected < 0
                   /\ RLe(I(0), y_at_left) /\ RLe(y_at_left, I(mirror_y))
                THEN << Candidate(I(0), y_at_left,
                                  RDiv(I(distance_to_left), cos(theta_reflected)), "left") >>
                ELSE <<>>
    IN  top \o right \o left

\* mutant of ReflectedEnd: the fallback takes x_at_top as it is
ReflectedEnd_Unclamped(theta_reflected, width, cx, mirror_y) ==
    LET intersections == Intersections(theta_reflected, width, cx, mirror_y)
    IN  IF intersections # <<>>
        THEN LET c == Head(SortByDist(intersections))
             IN  [x |-> c.x, y |-> c.y, edge |-> c.edge]
        ELSE [x |-> x_at_top(theta_reflected, cx, mirror_y),
              y |-> I(0), edge |-> "fallback"]

\* lines 270-278: the closest intersection, else the clamped top-edge point
ReflectedEnd(theta_reflected, width, cx, mirror_y) ==
    LET intersections == Intersections(theta_reflected, width, cx, mirror_y)
    IN  IF intersections # <<>>
        THEN LET c == Head(SortByDist(intersections))
             IN  [x |-> c.x, y |-> c.y, edge |-> c.edge]
        ELSE [x |-> RMax(I(0), RMin(I(width), x_at_top(theta_reflected, cx, mirror_y))),
              y |-> I(0), edge |-> "fallback"]

\* the order of the drawing calls in _render_final_state
_render_final_state(cfg, td) ==
    LET e == ReflectedEnd(td.theta_reflected_radians, cfg.image_size[1],
                          center_x(cfg), center_y(cfg))
    IN  PaintAll(create_blank_image,
                 << MirrorLine(cfg), HorizontalHatches(cfg), DiagonalHatches(cfg),
                    IncidentRay(cfg, td),
                    _draw_arrow("reflected", Pt(I(center_x(cfg)), I(center_y(cfg))),
                                Pt(e.x, e.y), "red", 3),
                    NormalLine(cfg) >>)

-----------------------------------------------------------------------------
(* Animation: _create_reflection_animation_frames *)

\* mutant of AnimIntersections: the copy in the animation loses the
\* right-edge branch
AnimIntersections_NoRightEdge(theta_reflected, width, cx, mirror_y) ==
    LET distance_to_top == mirror_y
        xtop == RAdd(I(cx), RMul(I(distance_to_top), tan(theta_reflected)))
        distance_to_left == cx
        y_at_left == RSub(I(mirror_y), RDiv(I(distance_to_left), tan(theta_reflected)))
        top == IF RLe(I(0), xtop) /\ RLe(xtop, I(width))
               THEN << Candidate(xtop, I(0),
                                 RDiv(I(distance_to_top), cos(theta_reflected)), "top") >>
               ELSE <<>>
        left == IF theta_reflected < 0
                   /\ RLe(I(0), y_at_left) /\ RLe(y_at_left, I(mirror_y))
                THEN << Candidate(I(0), y_at_left,
                                  RDiv(I(distance_to_left), cos(theta_reflected)), "left") >>
                ELSE <<>>
    IN  top \o left

\* the second copy of the edge extension, lines 395-425
AnimIntersections(theta_reflected, width, cx, mirror_y) ==
    LET distance_to_top == mirror_y
        xtop == RAdd(I(cx), RMul(I(distance_to_top), tan(theta_reflected)))
        distance_to_right == width - cx
        y_at_right == RSub(I(mirror_y), RDiv(I(distance_to_right), tan(theta_reflected)))
        distance_to_left == cx
        y_at_left == RSub(I(mirror_y), RDiv(I(distance_to_left), tan(theta_reflected)))
        top == IF RLe(I(0), xtop) /\ RLe(xtop, I(width))
               THEN << Candidate(xtop, I(0),
                                 RDiv(I(distance_to_top), cos(theta_reflected)), "top") >>
               ELSE <<>>
        right == IF theta_reflected > 0
                    /\ RLe(I(0), y_at_right) /\ RLe(y_at_right, I(mirror_y))
                 THEN << Candidate(I(width), y_at_right,
                                   RDiv(I(distance_to_right), cos(theta_reflected)), "right") >>
                 ELSE <<>>
        left == IF theta_reflected < 0
                   /\ RLe(I(0), y_at_left) /\ RLe(y_at_left, I(mirror_y))
                THEN << Candidate(I(0), y_at_left,
                                  RDiv(I(distance_to_left), cos(theta_reflected)), "left") >>
                ELSE <<>>
    IN  top \o right \o left

\* lines 427-434
FinalEnd(theta_reflected, width, cx, mirror_y) ==
    LET intersections == AnimIntersections(theta_reflected, width, cx, mirror_y)
        xtop == RAdd(I(cx), RMul(I(mirror_y), tan(theta_reflected)))
    IN  IF intersections # <<>>
        THEN LET c == Head(SortByDist(intersections))
             IN  [x |-> c.x, y |-> c.y, edge |-> c.edge]
        ELSE [x |-> RMax(I(0), RMin(I(width), xtop)), y |-> I(0), edge |-> "fallback"]

\* mutant of Progress: divides by the frame count, not by the count less one
Progress_DividedByCount(i, transition_frames) ==
    IF transition_frames > 1 THEN Rat(i, transition_frames) ELSE I(1)

\* line 348
Progress(i, transition_frames) ==
    IF transition_frames > 1 THEN Rat(i, transition_frames - 1) ELSE I(1)

\* mutant of CurrentEnd: only x is interpolated, y jumps to the final height
CurrentEnd_XOnly(final_end, cx, mirror_y, progress) ==
    Pt(RAdd(I(cx), RMul(RSub(final_end.x, I(cx)), progress)), final_end.y)

\* lines 437-438
CurrentEnd(final_end, cx, mirror_y, progress) ==
    Pt(RAdd(I(cx), RMul(RSub(final_end.x, I(cx)), progress)),
       RSub(I(mirror_y), RMul(RSub(I(mirror_y), final_end.y), progress)))

\* line 392: the reflected ray is drawn once the transition has started
DrawsReflected(progress) == RLt(I(0), progress)

\* mutant of DrawsAngle: the comparison is turned round
DrawsAngle_Reversed(progress) == RLt(Rat(3, 10), progress)

\* line 444: arc and label only in the first part of the transition
DrawsAngle(progress) == RLt(progress, Rat(3, 10))

\* one pass of the loop body, lines 350-463
TransitionFrame(cfg, td, progress) ==
    LET cx == center_x(cfg)
        mirror_y == center_y(cfg)
        e == FinalEnd(td.theta_reflected_radians, cfg.image_size[1], cx, mirror_y)
        reflected == IF DrawsReflected(progress)
                     THEN << _draw_arrow("reflected", Pt(I(cx), I(mirror_y)),
                                         CurrentEnd(e, cx, mirror_y, progress), "red", 3) >>
                     ELSE <<>>
        angle == IF DrawsAngle(progress)
                 THEN << AngleArc(cfg, td), AngleLabel(cfg, td) >>
                 ELSE <<>>
    IN  PaintAll(create_blank_image,
                 << MirrorLine(cfg), HorizontalHatches(cfg), DiagonalHatches(cfg),
                    NormalLine(cfg), IncidentRay(cfg, td) >> \o reflected \o angle)

\* for _ in range(n): frames.append(img)
RECURSIVE Repeat(_, _)
Repeat(img, n) == IF n <= 0 THEN <<>> ELSE <<img>> \o Repeat(img, n - 1)

\* mutant of TransitionFrames: the loop runs once more, over 0..transition_frames
RECURSIVE TransitionFrames_OneMore(_, _, _, _)
TransitionFrames_OneMore(cfg, td, i, transition_frames) ==
    IF i > transition_frames THEN <<>>
    ELSE << TransitionFrame(cfg, td, Progress(i, transition_frames)) >>
         \o TransitionFrames_OneMore(cfg, td, i + 1, transition_frames)

\* for i in range(transition_frames): ... ; range is empty for a count <= 0
RECURSIVE TransitionFrames(_, _, _, _)
TransitionFrames(cfg, td, i, transition_frames) ==
    IF i >= transition_frames THEN <<>>
    ELSE << TransitionFrame(cfg, td, Progress(i, transition_frames)) >>
         \o TransitionFrames(cfg, td, i + 1, transition_frames)

RECURSIVE ProgressValues(_, _)
ProgressValues(i, transition_frames) ==
    IF i >= transition_frames THEN <<>>
    ELSE << Progress(i, transition_frames) >> \o ProgressValues(i + 1, transition_frames)

\* the frame list, with the values progress took in the loop
_create_reflection_animation_frames(cfg, td, hold_frames, transition_frames) ==
    LET first_frame == _render_initial_state(cfg, td)
        final_frame == _render_final_state(cfg, td)
    IN  [ hold_frames |-> hold_frames,
          transition_frames |-> transition_frames,
          frames |-> Repeat(first_frame, hold_frames)
                     \o TransitionFrames(cfg, td, 0, transition_frames)
                     \o Repeat(final_frame, hold_frames),
          progress |-> ProgressValues(0, transition_frames) ]

NoAnim ==
    [ hold_frames |-> 0, transition_frames |-> 0, frames |-> <<>>, progress |-> <<>> ]

-----------------------------------------------------------------------------
(* Prompts, rubrics, video and the task pair *)

NumPrompts == 3       \* len(PROMPTS["default"])
NumRubrics == 3       \* len(RUBRICS["default"])

None == <<>>

\* get_prompt: template k of the task type with the reflectivity filled in
\* and the frame-boundary sentence appended
get_prompt(task_type, td, k) ==
    [ template |-> k, reflectivity |-> td.reflectivity, boundary |-> TRUE ]

\* get_rubric: rubric k of the task type
get_rubric(task_type, k) == [ rubric |-> k ]

\* _generate_video: the file is named after the domain and the task id; the
\* encoder answers with the path or with nothing
_generate_video(cfg, task_id, td, encoded) ==
    LET video_path == << cfg.domain, "videos", task_id, "ground_truth.mp4" >>
        result == IF encoded THEN video_path ELSE None
    IN  IF result # None THEN result ELSE None

\* mutant of VideoStep: the test of self.video_generator is dropped, and
\* calling a method of None raises AttributeError
VideoStep_NoGeneratorTest(cfg, vg, task_id, td, encoded) ==
    IF cfg.generate_videos
    THEN IF vg = "None"
         THEN [ raised |-> TRUE, called |-> FALSE, encoded |-> FALSE,
                video_path |-> None ]
         ELSE [ raised |-> FALSE, called |-> TRUE, encoded |-> encoded,
                video_path |-> _generate_video(cfg, task_id, td, encoded) ]
    ELSE [ raised |-> FALSE, called |-> FALSE, encoded |-> FALSE,
           video_path |-> None ]

\* lines 48-51; raised is set when the statement throws, called when the
\* encoder was asked for a video, encoded when it answered with a path
VideoStep(cfg, vg, task_id, td, encoded) ==
    IF cfg.generate_videos /\ vg # "None"
    THEN [ raised |-> FALSE, called |-> TRUE, encoded |-> encoded,
           video_path |-> _generate_video(cfg, task_id, td, encoded) ]
    ELSE [ raised |-> FALSE, called |-> FALSE, encoded |-> FALSE,
           video_path |-> None ]

TaskPair(status, task_id, domain, prompt, rubric, first, final, video) ==
    [ status |-> status, task_id |-> task_id, domain |-> domain,
      prompt |-> prompt, rubric |-> rubric,
      first_image |-> first, final_image |-> final,
      ground_truth_video |-> video,
      encoder_called |-> FALSE, encoder_returned |-> FALSE ]

NoPrompt == [ template |-> 0, reflectivity |-> 0, boundary |-> FALSE ]
NoRubric == [ rubric |-> 0 ]
NoPair == TaskPair("none", "", "", NoPrompt, NoRubric, NoImage, NoImage, None)

\* generate_task_pair for one outcome of the random draws and of the encoder
generate_task_pair(cfg, vg, task_id, td, encoded, kp, kr) ==
    LET first == _render_initial_state(cfg, td)
        final == _render_final_state(cfg, td)
        video == VideoStep(cfg, vg, task_id, td, encoded)
        task_type == td.type
    IN  IF video.raised
        THEN [ NoPair EXCEPT !.status = "raised", !.task_id = task_id,
                             !.encoder_called = video.called,
                             !.encoder_returned = video.encoded ]
        ELSE [ TaskPair("returned", task_id, cfg.domain,
                        get_prompt(task_type, td, kp), get_rubric(task_type, kr),
                        first, final, video.video_path)
               EXCEPT !.encoder_called = video.called,
                      !.encoder_returned = video.encoded ]

-----------------------------------------------------------------------------
(* The random module, the temporary directory and the callers *)

\* threads that call generate_task_pair of the one generator
Callers == {"c1", "c2"}

\* the hidden generator of the random module: what it was seeded with and
\* how many numbers it has handed out
Seeded(seed) == [ seed |-> seed, pos |-> 0 ]

\* random.random(): the next number of the stream, in twelfths, and the
\* generator state after it; the stream stands for the Mersenne Twister's,
\* a fixed function of the seed and of the position
random_random(state) ==
    [ value |-> ((state.seed + 1) * 5 + state.pos * 7) % 12,
      state |-> [ state EXCEPT !.pos = @ + 1 ] ]

\* random.uniform(a, b) = a + (b - a) * self.random(), on the grid: the
\* values between a and b are passed through from a towards b
random_uniform(state, grid, a, b) ==
    LET r == random_random(state)
        values == uniform(grid, a, b)
        k == (r.value * Cardinality(values)) \div 12
        v == IF a <= b
             THEN CHOOSE x \in values : Cardinality({ y \in values : y < x }) = k
             ELSE CHOOSE x \in values : Cardinality({ y \in values : y > x }) = k
    IN  [ value |-> v, state |-> r.state ]

\* random.choice(seq) over a sequence of n entries: the index chosen
random_choice(state, n) ==
    LET r == random_random(state)
    IN  [ value |-> (r.value * n) \div 12 + 1, state |-> r.state ]

\* the temporary directory before any video was asked for
NoTmp == [ exists |-> FALSE, files |-> {} ]

\* a caller that is not inside generate_task_pair
NoCall ==
    [ pc |-> "none", task_id |-> "", encoded |-> FALSE, start |-> Seeded(0),
      reflectivity |-> 0, task_data |-> NoData,
      first_image |-> NoImage, final_image |-> NoImage,
      video |-> [ raised |-> FALSE, called |-> FALSE, encoded |-> FALSE,
                  video_path |-> None ],
      prompt |-> NoPrompt, result |-> NoPair,
      reads |-> {}, writes |-> {} ]

-----------------------------------------------------------------------------
(* The state machine *)

Init ==
    /\ config \in Configs
    /\ available \in BOOLEAN
    /\ video_generator = "None"
    /\ pc = "new"
    /\ op = "none"
    /\ task_data = NoData
    /\ first_image = NoImage
    /\ final_image = NoImage
    /\ anim = NoAnim
    /\ task_pair = NoPair
    /\ rng = Seeded(0)
    /\ calls = [ p \in Callers |-> NoCall ]
    /\ tmp = NoTmp

\* TaskGenerator.__init__
Construct ==
    /\ pc = "new"
    /\ pc' = "ready"
    /\ video_generator' =
           IF config.generate_videos /\ available THEN "VideoGenerator" ELSE "None"
    /\ UNCHANGED <<config, available, op, task_data, first_image, final_image,
                   anim, task_pair, rng, calls, tmp>>

\* a call of _generate_task_data
GenerateTaskData ==
    /\ pc = "ready"
    /\ \E td \in _generate_task_data(config) :
         /\ task_data' = td
         /\ op' = "_generate_task_data"
    /\ first_image' = NoImage
    /\ final_image' = NoImage
    /\ anim' = NoAnim
    /\ task_pair' = NoPair
    /\ pc' = "returned"
    /\ UNCHANGED <<config, available, video_generator, rng, calls, tmp>>

\* a call of _render_initial_state on a sampled scenario
RenderInitialState ==
    /\ pc = "ready"
    /\ \E td \in _generate_task_data(config) :
         /\ task_data' = td
         /\ first_image' = _render_initial_state(config, td)
         /\ op' = "_render_initial_state"
    /\ final_image' = NoImage
    /\ anim' = NoAnim
    /\ task_pair' = NoPair
    /\ pc' = "returned"
    /\ UNCHANGED <<config, available, video_generator, rng, calls, tmp>>

\* a call of _render_final_state on a sampled scenario
RenderFinalState ==
    /\ pc = "ready"
    /\ \E td \in _generate_task_data(config) :
         /\ task_data' = td
         /\ final_image' = _render_final_state(config, td)
         /\ op' = "_render_final_state"
    /\ first_image' = NoImage
    /\ anim' = NoAnim
    /\ task_pair' = NoPair
    /\ pc' = "returned"
    /\ UNCHANGED <<config, available, video_generator, rng, calls, tmp>>

\* a call of _create_reflection_animation_frames on a sampled scenario
CreateAnimationFrames ==
    /\ pc = "ready"
    /\ \E td \in _generate_task_data(config), hold_frames \in 0..MaxHold,
          transition_frames \in -1..MaxTransition :
         /\ task_data' = td
         /\ anim' = _create_reflection_animation_frames(config, td, hold_frames,
                                                        transition_frames)
         /\ op' = "_create_reflection_animation_frames"
    /\ first_image' = NoImage
    /\ final_image' = NoImage
    /\ task_pair' = NoPair
    /\ pc' = "returned"
    /\ UNCHANGED <<config, available, video_generator, rng, calls, tmp>>

\* a call of generate_task_pair
GenerateTaskPair ==
    /\ pc = "ready"
    /\ \E task_id \in TaskIds, td \in _generate_task_data(config),
          encoded \in BOOLEAN, kp \in 1..NumPrompts, kr \in 1..NumRubrics :
         /\ task_data' = td
         /\ task_pair' = generate_task_pair(config, video_generator, task_id, td,
                                            encoded, kp, kr)
         /\ op' = "generate_task_pair"
    /\ first_image' = NoImage
    /\ final_image' = NoImage
    /\ anim' = NoAnim
    /\ pc' = "returned"
    /\ UNCHANGED <<config, available, video_generator, rng, calls, tmp>>

\* the caller is done with the result of the call; the generator keeps
\* nothing of it
Return ==
    /\ pc = "returned"
    /\ pc' = "ready"
    /\ op' = "none"
    /\ task_data' = NoData
    /\ first_image' = NoImage
    /\ final_image' = NoImage
    /\ anim' = NoAnim
    /\ task_pair' = NoPair
    /\ UNCHANGED <<config, available, video_generator, rng, calls, tmp>>

Next ==
    \/ Construct
    \/ GenerateTaskData
    \/ RenderInitialState
    \/ RenderFinalState
    \/ CreateAnimationFrames
    \/ GenerateTaskPair
    \/ Return

Spec == Init /\ [][Next]_vars

-----------------------------------------------------------------------------
(* The renderers over further canvases: widths 1 and 2, an odd width, a
   canvas lower than the start offset of the incident ray, a canvas of
   height 0 *)

GeometrySizes ==
    { <<400, 400>>, <<299, 400>>, <<1, 120>>, <<2, 120>>, <<401, 60>>, <<5, 0>> }

GeometryConfigs ==
    [ reflectivity_min : {10}, reflectivity_max : {10},
      theta_min : {-7374}, theta_max : {8000},
      image_size : GeometrySizes,
      generate_videos : {FALSE},
      domain : {"optics_reflection"} ]

InitGeometry ==
    /\ config \in GeometryConfigs
    /\ available \in BOOLEAN
    /\ video_generator = "None"
    /\ pc = "new"
    /\ op = "none"
    /\ task_data = NoData
    /\ first_image = NoImage
    /\ final_image = NoImage
    /\ anim = NoAnim
    /\ task_pair = NoPair
    /\ rng = Seeded(0)
    /\ calls = [ p \in Callers |-> NoCall ]
    /\ tmp = NoTmp

NextGeometry ==
    \/ Construct
    \/ RenderInitialState
    \/ RenderFinalState
    \/ CreateAnimationFrames
    \/ Return

SpecGeometry == InitGeometry /\ [][NextGeometry]_vars

-----------------------------------------------------------------------------
(* Calls of generate_task_pair made at the same time: each caller runs the
   statements of the method in order, and between two statements of one
   caller the other caller may run any number of its own.  A draw from the
   random module is one step: the module takes the number and advances its
   generator in one go. *)

ConcurrentConfigs ==
    [ reflectivity_min : {10}, reflectivity_max : {90},
      theta_min : {-7374}, theta_max : {8000},
      image_size : { <<400, 400>> },
      generate_videos : BOOLEAN,
      domain : {"optics_reflection"} ]

\* shared things a step reads or writes
RandomState == <<"random">>
TmpDir == <<"temp_dir">>

InitConcurrent ==
    /\ config \in ConcurrentConfigs
    /\ available \in BOOLEAN
    /\ video_generator = "None"
    /\ pc = "new"
    /\ op = "none"
    /\ task_data = NoData
    /\ first_image = NoImage
    /\ final_image = NoImage
    /\ anim = NoAnim
    /\ task_pair = NoPair
    /\ \E seed \in 0..MaxSeed : rng = Seeded(seed)
    /\ \E ids \in [Callers -> TaskIds], enc \in [Callers -> BOOLEAN] :
         /\ \A p, q \in Callers : p # q => ids[p] # ids[q]
         /\ calls = [ p \in Callers |->
                        [ NoCall EXCEPT !.pc = "called", !.task_id = ids[p],
                                        !.encoded = enc[p] ] ]
    /\ tmp = NoTmp

SharedUnchanged ==
    UNCHANGED <<config, available, video_generator, pc, op, task_data,
                first_image, final_image, anim, task_pair>>

\* line 75: reflectivity = random.uniform(...); start keeps the generator
\* state the call found
SampleReflectivity(p) ==
    /\ pc = "ready"
    /\ calls[p].pc = "called"
    /\ LET r == random_uniform(rng, ReflectivityGrid,
                               config.reflectivity_min, config.reflectivity_max)
       IN  /\ rng' = r.state
           /\ calls' = [ calls EXCEPT ![p].pc = "sampling",
                                      ![p].start = rng,
                                      ![p].reflectivity = r.value,
                                      ![p].reads = @ \cup {RandomState},
                                      ![p].writes = @ \cup {RandomState} ]
    /\ UNCHANGED tmp
    /\ SharedUnchanged

\* lines 78-92: theta_degrees = random.uniform(...), and the dictionary
SampleTheta(p) ==
    /\ pc = "ready"
    /\ calls[p].pc = "sampling"
    /\ LET r == random_uniform(rng, ThetaGrid, config.theta_min, config.theta_max)
       IN  /\ rng' = r.state
           /\ calls' = [ calls EXCEPT ![p].pc = "sampled",
                                      ![p].task_data =
                                          Scenario(calls[p].reflectivity, r.value),
                                      ![p].reads = @ \cup {RandomState},
                                      ![p].writes = @ \cup {RandomState} ]
    /\ UNCHANGED tmp
    /\ SharedUnchanged

\* lines 45-46: the two stills, drawn on images of the call's own
RenderStills(p) ==
    /\ pc = "ready"
    /\ calls[p].pc = "sampled"
    /\ calls' = [ calls EXCEPT
                    ![p].pc = "rendered",
                    ![p].first_image = _render_initial_state(config, calls[p].task_data),
                    ![p].final_image = _render_final_state(config, calls[p].task_data) ]
    /\ UNCHANGED <<rng, tmp>>
    /\ SharedUnchanged

\* lines 48-51 with _generate_video: mkdir(parents=True, exist_ok=True),
\* then the encoder writes <task_id>_ground_truth.mp4 if it succeeds
GenerateVideo(p) ==
    /\ pc = "ready"
    /\ calls[p].pc = "rendered"
    /\ LET c == calls[p]
           video == VideoStep(config, video_generator, c.task_id, c.task_data,
                              c.encoded)
       IN  IF video.called
           THEN /\ tmp' = [ exists |-> TRUE,
                            files |-> IF video.encoded
                                      THEN tmp.files \cup {video.video_path}
                                      ELSE tmp.files ]
                /\ calls' = [ calls EXCEPT
                                ![p].pc = "video",
                                ![p].video = video,
                                ![p].reads = @ \cup {TmpDir},
                                ![p].writes = @ \cup {TmpDir}
                                     \cup (IF video.encoded THEN {video.video_path}
                                           ELSE {}) ]
           ELSE /\ tmp' = tmp
                /\ calls' = [ calls EXCEPT ![p].pc = "video", ![p].video = video ]
    /\ UNCHANGED rng
    /\ SharedUnchanged

\* line 55: get_prompt, which calls random.choice(prompts)
SelectPrompt(p) ==
    /\ pc = "ready"
    /\ calls[p].pc = "video"
    /\ LET r == random_choice(rng, NumPrompts)
       IN  /\ rng' = r.state
           /\ calls' = [ calls EXCEPT
                           ![p].pc = "prompted",
                           ![p].prompt = get_prompt(calls[p].task_data.type,
                                                    calls[p].task_data, r.value),
                           ![p].reads = @ \cup {RandomState},
                           ![p].writes = @ \cup {RandomState} ]
    /\ UNCHANGED tmp
    /\ SharedUnchanged

\* lines 56-66: get_rubric, which calls random.choice(rubrics), and the
\* TaskPair handed back
SelectRubric(p) ==
    /\ pc = "ready"
    /\ calls[p].pc = "prompted"
    /\ LET c == calls[p]
           r == random_choice(rng, NumRubrics)
       IN  /\ rng' = r.state
           /\ calls' = [ calls EXCEPT
                           ![p].pc = "done",
                           ![p].result =
                               [ TaskPair("returned", c.task_id, config.domain,
                                          c.prompt, get_rubric(c.task_data.type, r.value),
                                          c.first_image, c.final_image,
                                          c.video.video_path)
                                 EXCEPT !.encoder_called = c.video.called,
                                        !.encoder_returned = c.video.encoded ],
                           ![p].reads = @ \cup {RandomState},
                           ![p].writes = @ \cup {RandomState} ]
    /\ UNCHANGED tmp
    /\ SharedUnchanged

NextConcurrent ==
    \/ Construct
    \/ \E p \in Callers : SampleReflectivity(p)
    \/ \E p \in Callers : SampleTheta(p)
    \/ \E p \in Callers : RenderStills(p)
    \/ \E p \in Callers : GenerateVideo(p)
    \/ \E p \in Callers : SelectPrompt(p)
    \/ \E p \in Callers : SelectRubric(p)

SpecConcurrent == InitConcurrent /\ [][NextConcurrent]_vars

-----------------------------------------------------------------------------
(* Helpers of the properties *)

ValidRanges(cfg) ==
    /\ cfg.reflectivity_min <= cfg.reflectivity_max
    /\ cfg.theta_min <= cfg.theta_max

Sampled == op = "_generate_task_data"
Animated == op = "_create_reflection_animation_frames"

FinalRendered == op = "_render_final_state"

\* the geometry of the current call
Width == config.image_size[1]
CenterX == center_x(config)
MirrorY == center_y(config)
ThetaReflected == task_data.theta_reflected_radians

\* the endpoint of the reflected ray drawn in an image
DrawnReflectedEnd(img) == img["reflected"].b
DrawsReflectedRay(img) == img["reflected"].kind = "reflected"

\* transition frame k (1-based) of the current animation
TransitionCount == Len(anim.progress)
TransitionAt(k) == anim.frames[anim.hold_frames + k]

-----------------------------------------------------------------------------
(* C1 *)

\* C1: with both ranges valid, the sampled scenario has the reflected angle
\* equal to the incident angle, in degrees and in radians, whatever the
\* reflectivity, and the incident angle and the reflectivity lie inside
\* their configured ranges.
C1_ReflectionLaw ==
    (Sampled /\ ValidRanges(config)) =>
        /\ task_data.type = "default"
        /\ task_data.theta_reflected_degrees = task_data.theta_incident_degrees
        /\ task_data.theta_reflected_radians = task_data.theta_incident_radians
        /\ config.theta_min <= task_data.theta_incident_degrees
        /\ task_data.theta_incident_degrees <= config.theta_max
        /\ config.reflectivity_min <= task_data.reflectivity
        /\ task_data.reflectivity <= config.reflectivity_max

\* a nonzero angle drawn from a proper range, under a weak mirror
C1_Witness ==
    /\ Sampled /\ ValidRanges(config)
    /\ config.theta_min < config.theta_max
    /\ config.reflectivity_min < config.reflectivity_max
    /\ task_data.theta_incident_degrees = 3000
    /\ task_data.reflectivity = 10
    /\ task_data.theta_reflected_degrees = 3000

-----------------------------------------------------------------------------
(* C9 *)

\* C9: when a configured range has min > max, sampling fails fast: no
\* scenario is returned.
C9_InvalidRangeFailsFast ==
    (Sampled /\ ~ValidRanges(config)) => task_data.type # "default"

-----------------------------------------------------------------------------
(* C2 *)

\* C2: the reflected-ray endpoint of the final still equals the endpoint
\* drawn in the last transition frame (progress = 1); the two copies of the
\* edge extension choose the same edge and the same coordinates.
C2_EndpointAgreement ==
    (Animated /\ anim.transition_frames >= 1) =>
        LET last == TransitionAt(anim.transition_frames)
            still == _render_final_state(config, task_data)
            e1 == ReflectedEnd(ThetaReflected, Width, CenterX, MirrorY)
            e2 == FinalEnd(ThetaReflected, Width, CenterX, MirrorY)
        IN  /\ DrawsReflectedRay(last)
            /\ DrawnReflectedEnd(last) = DrawnReflectedEnd(still)
            /\ e1.edge = e2.edge
            /\ e1.x = e2.x /\ e1.y = e2.y
            /\ DrawnReflectedEnd(last) = Pt(e1.x, e1.y)

\* an animation of several transition frames whose ray ends on the right edge
C2_Witness ==
    /\ Animated /\ anim.transition_frames >= 2
    /\ ReflectedEnd(ThetaReflected, Width, CenterX, MirrorY).edge = "right"
    /\ DrawnReflectedEnd(TransitionAt(anim.transition_frames))[1] = I(Width)

-----------------------------------------------------------------------------
(* C3 *)

\* C3: for every non-empty frame sequence, also with hold_frames = 0, the
\* first frame is pixel-identical to the initial still and the last frame
\* is pixel-identical to the final still.
C3_FirstAndLastFrameMatchStills ==
    (Animated /\ anim.frames # <<>>) =>
        /\ anim.frames[1] = _render_initial_state(config, task_data)
        /\ anim.frames[Len(anim.frames)] = _render_final_state(config, task_data)

-----------------------------------------------------------------------------
(* C4 *)

\* the table entry is an exact direction (a Pythagorean triple)
ExactAngle(theta) ==
    LET a == Direction(theta) IN a.sn * a.sn + a.cs * a.cs = a.h * a.h

\* squared Euclidean distance of a candidate from the reflection point
DistSq(c, cx, mirror_y) ==
    LET dx == RSub(c.x, I(cx))
        dy == RSub(c.y, I(mirror_y))
    IN  RAdd(RMul(dx, dx), RMul(dy, dy))

\* C4: the endpoint chosen is the surviving candidate closest to the
\* reflection point, and the sort key of every candidate is its Euclidean
\* distance from the reflection point (checked on the exact directions).
C4_SortKeyIsEuclideanDistance ==
    (FinalRendered /\ ExactAngle(ThetaReflected)) =>
        LET cands == Intersections(ThetaReflected, Width, CenterX, MirrorY)
            e == ReflectedEnd(ThetaReflected, Width, CenterX, MirrorY)
        IN  /\ \A i \in 1..Len(cands) :
                 /\ RLe(I(0), cands[i].dist)
                 /\ RMul(cands[i].dist, cands[i].dist) = DistSq(cands[i], CenterX, MirrorY)
            /\ \A i \in 1..Len(cands) :
                 RLe(DistSq(e, CenterX, MirrorY), DistSq(cands[i], CenterX, MirrorY))

\* the first half of C4 alone: the chosen endpoint is a closest survivor
C4_ChosenIsClosest ==
    (FinalRendered /\ ExactAngle(ThetaReflected)) =>
        LET cands == Intersections(ThetaReflected, Width, CenterX, MirrorY)
            e == ReflectedEnd(ThetaReflected, Width, CenterX, MirrorY)
        IN  \A i \in 1..Len(cands) :
                RLe(DistSq(e, CenterX, MirrorY), DistSq(cands[i], CenterX, MirrorY))

-----------------------------------------------------------------------------
(* C5 *)

\* the edge rule for angles at or right of the normal
EdgeRuleRight(theta, e) ==
    LET xtop == x_at_top(theta, CenterX, MirrorY)
    IN  IF theta = 0
        THEN e.edge = "top" /\ e.x = I(CenterX) /\ e.y = I(0)
        ELSE IF RLe(xtop, I(Width))
        THEN e.x = xtop /\ e.y = I(0)
        ELSE e.edge = "right" /\ e.x = I(Width)
             /\ RLe(I(0), e.y) /\ RLe(e.y, I(MirrorY))

\* the mirrored rule for angles left of the normal
EdgeRuleLeft(theta, e) ==
    LET xtop == x_at_top(theta, CenterX, MirrorY)
    IN  IF RLe(I(0), xtop)
        THEN e.x = xtop /\ e.y = I(0)
        ELSE e.edge = "left" /\ e.x = I(0)
             /\ RLe(I(0), e.y) /\ RLe(e.y, I(MirrorY))

\* C5: theta = 0 ends at (center_x, 0) on the top edge; a positive theta
\* ends on the top edge at x_at_top when that is inside [0, W] and on the
\* right edge otherwise; symmetrically a negative theta ends on the top
\* edge or on the left edge; near 90 degrees a side edge, never the top,
\* is selected.
C5_EdgeSelection ==
    FinalRendered =>
        LET e == ReflectedEnd(ThetaReflected, Width, CenterX, MirrorY)
        IN  /\ DrawnReflectedEnd(final_image) = Pt(e.x, e.y)
            /\ IF ThetaReflected >= 0
               THEN EdgeRuleRight(ThetaReflected, e)
               ELSE EdgeRuleLeft(ThetaReflected, e)

\* the part of C5 about angles at or right of the normal
C5_EdgeSelectionRightOfNormal ==
    (FinalRendered /\ ThetaReflected >= 0) =>
        LET e == ReflectedEnd(ThetaReflected, Width, CenterX, MirrorY)
        IN  /\ DrawnReflectedEnd(final_image) = Pt(e.x, e.y)
            /\ EdgeRuleRight(ThetaReflected, e)

\* the two worked examples on the 400 x 400 canvas: 30 degrees ends on the
\* top edge within 0.01 of x = 315.47, 80 degrees ends on the right edge
C5_Examples ==
    (FinalRendered /\ config.image_size = <<400, 400>>) =>
        LET e == ReflectedEnd(ThetaReflected, Width, CenterX, MirrorY)
        IN  /\ task_data.theta_reflected_degrees = 3000 =>
                /\ e.edge = "top" /\ e.y = I(0)
                /\ RLe(Rat(31546, 100), e.x) /\ RLe(e.x, Rat(31548, 100))
            /\ task_data.theta_reflected_degrees = 8000 =>
                /\ e.edge = "right" /\ e.x = I(400)
                /\ RLe(I(0), e.y) /\ RLe(e.y, I(200))

-----------------------------------------------------------------------------
(* C6 *)

Max0(n) == IF n > 0 THEN n ELSE 0

\* C6: the frame list is hold_frames initial stills, then exactly
\* max(transition_frames, 0) transition frames, then hold_frames final
\* stills; with transition_frames <= 0 only the two hold segments remain.
C6_FrameSequenceShape ==
    Animated =>
        LET h == anim.hold_frames
            t == Max0(anim.transition_frames)
        IN  /\ Len(anim.frames) = 2 * h + t
            /\ TransitionCount = t
            /\ \A i \in 1..h :
                 /\ anim.frames[i] = _render_initial_state(config, task_data)
                 /\ anim.frames[h + t + i] = _render_final_state(config, task_data)
            /\ anim.transition_frames <= 0 =>
                 anim.frames = Repeat(_render_initial_state(config, task_data), h)
                               \o Repeat(_render_final_state(config, task_data), h)

\* a negative transition count with one hold frame on each side
C6_Witness ==
    /\ Animated
    /\ anim.transition_frames = -1
    /\ anim.hold_frames = 1
    /\ Len(anim.frames) = 2
    /\ anim.frames[1] # anim.frames[2]

-----------------------------------------------------------------------------
(* C7 *)

\* C7: progress of transition frame i is i / (transition_frames - 1) for
\* more than one frame and 1 for a single frame; it lies in [0, 1], grows
\* strictly with i, is 0 at the first and 1 at the last frame when there is
\* more than one, and its denominator is never zero.
C7_ProgressLinear ==
    Animated =>
        LET tf == anim.transition_frames
            p == anim.progress
        IN  /\ \A k \in 1..Len(p) :
                 /\ p[k].d > 0
                 /\ tf > 1 => p[k].n * (tf - 1) = (k - 1) * p[k].d
                 /\ tf = 1 => (p[k].n = 1 /\ p[k].d = 1)
                 /\ 0 <= p[k].n /\ p[k].n <= p[k].d
            /\ \A k \in 1..(Len(p) - 1) : RLt(p[k], p[k + 1])
            /\ tf > 1 => (p[1] = I(0) /\ p[tf] = I(1))

\* several transition frames, one of them strictly inside the interval
C7_Witness ==
    /\ Animated
    /\ anim.transition_frames >= 3
    /\ RLt(I(0), anim.progress[2])
    /\ RLt(anim.progress[2], I(1))

-----------------------------------------------------------------------------
(* C8 *)

DrawsArcAndLabel(img) == img["arc"].kind = "arc" /\ img["label"].kind = "label"
DrawsArcOrLabel(img) == img["arc"].kind = "arc" \/ img["label"].kind = "label"

\* C8: a transition frame carries the arc and the label exactly when its
\* progress is below 0.3; those frames form a prefix of the transition, no
\* frame after one without them draws them again.
C8_AngleOnlyInPrefix ==
    Animated =>
        /\ \A k \in 1..TransitionCount :
             /\ (10 * anim.progress[k].n < 3 * anim.progress[k].d)
                   <=> DrawsArcAndLabel(TransitionAt(k))
             /\ DrawsArcOrLabel(TransitionAt(k)) => DrawsArcAndLabel(TransitionAt(k))
        /\ \A j, k \in 1..TransitionCount :
             (j < k /\ ~DrawsArcOrLabel(TransitionAt(j))) => ~DrawsArcOrLabel(TransitionAt(k))

\* two frames with the arc, then a frame without it
C8_Witness ==
    /\ Animated
    /\ TransitionCount >= 3
    /\ DrawsArcAndLabel(TransitionAt(1))
    /\ DrawsArcAndLabel(TransitionAt(2))
    /\ ~DrawsArcOrLabel(TransitionAt(3))

-----------------------------------------------------------------------------
(* C10 *)

Paired == op = "generate_task_pair"

CompleteRecord(tp) ==
    /\ tp.status = "returned"
    /\ tp.task_id \in TaskIds
    /\ tp.domain = config.domain
    /\ tp.prompt.template \in 1..NumPrompts
    /\ tp.prompt.reflectivity = task_data.reflectivity
    /\ tp.rubric.rubric \in 1..NumRubrics
    /\ tp.first_image = _render_initial_state(config, task_data)
    /\ tp.final_image = _render_final_state(config, task_data)

\* C10: when videos are disabled, or the encoder was unavailable at
\* construction, or the encoder returns no path, generate_task_pair returns
\* a complete record with ground_truth_video = None and does not raise; a
\* video path is returned only if videos are enabled, the encoder was
\* available and the encoder returned a path.
C10_VideoIsOptional ==
    Paired =>
        /\ (~config.generate_videos \/ ~available \/ ~task_pair.encoder_returned) =>
              /\ CompleteRecord(task_pair)
              /\ task_pair.ground_truth_video = None
        /\ (task_pair.status = "returned" /\ task_pair.ground_truth_video # None) =>
              /\ config.generate_videos
              /\ available
              /\ task_pair.encoder_returned

\* videos are asked for, the encoder is missing, and the pair is returned
\* without a video
C10_Witness ==
    /\ Paired
    /\ config.generate_videos /\ ~available
    /\ task_pair.status = "returned"
    /\ task_pair.ground_truth_video = None

-----------------------------------------------------------------------------
(* C12 *)

\* the shapes every transition frame repeats: mirror, hatching, normal and
\* incident ray, as the pixels no later shape covers show them
DrawsStaticScene(img) ==
    /\ img["mirror"] = MirrorLine(config)
    /\ img["hatch"] = DiagonalHatches(config)
    /\ img["normal"] = NormalLine(config)
    /\ img["incident"] = IncidentRay(config, task_data)

\* the reflected arrow of img runs from the reflection point to the point
\* the fraction p of the way to the endpoint of the final still
PartialRayTo(img, p) ==
    LET e == DrawnReflectedEnd(_render_final_state(config, task_data))
        b == DrawnReflectedEnd(img)
    IN  /\ img["reflected"].a = Pt(I(CenterX), I(MirrorY))
        /\ img["reflected"].extra = arrow_length
        /\ RSub(b[1], I(CenterX)) = RMul(p, RSub(e[1], I(CenterX)))
        /\ RSub(b[2], I(MirrorY)) = RMul(p, RSub(e[2], I(MirrorY)))

\* C12 as stated: every transition frame, the one with progress = 0
\* included, redraws the static scene and draws the reflected arrow from the
\* reflection point to reflectionPoint + progress * (finalEnd - reflectionPoint).
C12_EveryFrameDrawsPartialRay ==
    Animated =>
        \A k \in 1..TransitionCount :
            /\ DrawsStaticScene(TransitionAt(k))
            /\ DrawsReflectedRay(TransitionAt(k))
            /\ PartialRayTo(TransitionAt(k), anim.progress[k])

\* C12 amended: every transition frame redraws the static scene; it draws
\* the reflected arrow exactly when its progress is above 0, and then from
\* the reflection point to reflectionPoint + progress * (finalEnd -
\* reflectionPoint); the frame with progress = 0 has no reflected ray.
C12_PartialRayOnceStarted ==
    Animated =>
        \A k \in 1..TransitionCount :
            /\ DrawsStaticScene(TransitionAt(k))
            /\ DrawsReflectedRay(TransitionAt(k)) <=> anim.progress[k].n > 0
            /\ DrawsReflectedRay(TransitionAt(k)) =>
                   PartialRayTo(TransitionAt(k), anim.progress[k])
            /\ ~DrawsReflectedRay(TransitionAt(k)) =>
                   TransitionAt(k)["reflected"] = Background

\* a first frame without the reflected ray, then a frame whose ray stops
\* strictly between the reflection point and the right edge
C12_Witness ==
    /\ Animated
    /\ TransitionCount >= 3
    /\ anim.progress[1] = I(0)
    /\ ~DrawsReflectedRay(TransitionAt(1))
    /\ DrawsReflectedRay(TransitionAt(2))
    /\ ReflectedEnd(ThetaReflected, Width, CenterX, MirrorY).edge = "right"
    /\ RLt(I(CenterX), DrawnReflectedEnd(TransitionAt(2))[1])
    /\ RLt(DrawnReflectedEnd(TransitionAt(2))[1], I(Width))
    /\ RLt(DrawnReflectedEnd(TransitionAt(2))[2], I(MirrorY))

-----------------------------------------------------------------------------
(* C14 *)

\* no candidate of the final still's edge extension passes its bounds test
NoCandidate == Intersections(ThetaReflected, Width, CenterX, MirrorY) = <<>>
\* the same for the copy in the animation
NoAnimCandidate == AnimIntersections(ThetaReflected, Width, CenterX, MirrorY) = <<>>

\* (max(0, min(W, x_at_top)), 0), written out by cases
ClampedTop ==
    LET xtop == x_at_top(ThetaReflected, CenterX, MirrorY)
    IN  Pt(IF RLt(xtop, I(0)) THEN I(0)
           ELSE IF RLt(I(Width), xtop) THEN I(Width) ELSE xtop,
           I(0))

\* C14: when no edge candidate passes the bounds test, the reflected ray
\* ends at the top-edge intersection clamped into [0, W], at height 0, in
\* the final still, in the last frame of the animation and in the final
\* image of the task pair, and generate_task_pair returns its record.
C14_FallbackIsClampedTop ==
    /\ (FinalRendered /\ NoCandidate) =>
           /\ DrawsReflectedRay(final_image)
           /\ DrawnReflectedEnd(final_image) = ClampedTop
    /\ (Animated /\ anim.transition_frames >= 1 /\ NoAnimCandidate) =>
           /\ DrawsReflectedRay(TransitionAt(anim.transition_frames))
           /\ DrawnReflectedEnd(TransitionAt(anim.transition_frames)) = ClampedTop
    /\ (Animated /\ anim.hold_frames >= 1 /\ NoCandidate) =>
           DrawnReflectedEnd(anim.frames[Len(anim.frames)]) = ClampedTop
    /\ (Paired /\ NoCandidate) =>
           /\ task_pair.status = "returned"
           /\ DrawsReflectedRay(task_pair.final_image)
           /\ DrawnReflectedEnd(task_pair.final_image) = ClampedTop

\* a final still whose top-edge intersection lies left of the canvas and
\* whose ray is therefore drawn to the top left corner
C14_Witness ==
    /\ FinalRendered
    /\ NoCandidate
    /\ RLt(x_at_top(ThetaReflected, CenterX, MirrorY), I(0))
    /\ DrawnReflectedEnd(final_image) = Pt(I(0), I(0))

-----------------------------------------------------------------------------
(* C13 *)

\* the incident ray starts at x = center_x - (center_y - 50) * tan(theta),
\* ends where the reflected ray starts, at (center_x, center_y); the start
\* and the reflected endpoint lie strictly on opposite sides of the normal
\* and the reflected endpoint is not below the mirror
OppositeSides(img) ==
    LET start_x == img["incident"].a[1]
        end_x == DrawnReflectedEnd(img)[1]
        end_y == DrawnReflectedEnd(img)[2]
    IN  /\ start_x = RSub(I(CenterX),
                          RMul(I(MirrorY - ray_start_y),
                               tan(task_data.theta_incident_radians)))
        /\ img["incident"].b = Pt(I(CenterX), I(MirrorY))
        /\ img["reflected"].a = Pt(I(CenterX), I(MirrorY))
        /\ \/ RLt(start_x, I(CenterX)) /\ RLt(I(CenterX), end_x)
           \/ RLt(I(CenterX), start_x) /\ RLt(end_x, I(CenterX))
        /\ RLe(end_y, I(MirrorY))

\* C13 as stated: for every angle with 0 < |theta| < 90 degrees and every
\* canvas whose half-height exceeds the start offset of 50 pixels, the final
\* still has the incident start and the reflected endpoint strictly on
\* opposite sides of x = center_x, both rays meeting at the reflection
\* point and the reflected endpoint at y <= center_y.
C13_OppositeSides ==
    (/\ FinalRendered
     /\ task_data.theta_incident_degrees # 0
     /\ Abs(task_data.theta_incident_degrees) < 9000
     /\ MirrorY > ray_start_y) => OppositeSides(final_image)

\* C13 amended: the same on every canvas that also has a column left of the
\* normal, center_x >= 1, that is a width of at least 2.
C13_OppositeSidesWidthTwo ==
    (/\ FinalRendered
     /\ task_data.theta_incident_degrees # 0
     /\ Abs(task_data.theta_incident_degrees) < 9000
     /\ MirrorY > ray_start_y
     /\ CenterX >= 1) => OppositeSides(final_image)

\* a ray coming in from the right on a canvas of width 2, reflected to
\* the left of the normal
C13_Witness ==
    /\ FinalRendered
    /\ task_data.theta_incident_degrees < 0
    /\ MirrorY > ray_start_y
    /\ Width = 2
    /\ RLt(I(CenterX), final_image["incident"].a[1])
    /\ RLt(DrawnReflectedEnd(final_image)[1], I(CenterX))

-----------------------------------------------------------------------------
(* C15 *)

\* C15: for every reflected angle strictly between -90 and 90 degrees and
\* every canvas with W >= 1 and H >= 0, at least one candidate of the edge
\* extension passes the bounds test, in the final still and in the
\* animation, so that the clamped fallback is never taken.
C15_FallbackNeverTaken ==
    /\ (/\ FinalRendered
        /\ Abs(task_data.theta_reflected_degrees) < 9000
        /\ Width >= 1 /\ config.image_size[2] >= 0) =>
           /\ ~NoCandidate
           /\ ReflectedEnd(ThetaReflected, Width, CenterX, MirrorY).edge # "fallback"
    /\ (/\ Animated
        /\ Abs(task_data.theta_reflected_degrees) < 9000
        /\ Width >= 1 /\ config.image_size[2] >= 0) =>
           /\ ~NoAnimCandidate
           /\ FinalEnd(ThetaReflected, Width, CenterX, MirrorY).edge # "fallback"

-----------------------------------------------------------------------------
(* C11 *)

\* generate_task_pair run by one caller with nobody else drawing from the
\* random module: four draws in a row from the generator state it finds
RunAlone(cfg, vg, task_id, encoded, state) ==
    LET d1 == random_uniform(state, ReflectivityGrid,
                             cfg.reflectivity_min, cfg.reflectivity_max)
        d2 == random_uniform(d1.state, ThetaGrid, cfg.theta_min, cfg.theta_max)
        d3 == random_choice(d2.state, NumPrompts)
        d4 == random_choice(d3.state, NumRubrics)
    IN  generate_task_pair(cfg, vg, task_id, Scenario(d1.value, d2.value),
                           encoded, d3.value, d4.value)

\* C11: calls of generate_task_pair interleaved in any order share no
\* mutable state other than the temporary video directory: nothing one
\* call writes is read or written by another call, and the record a call
\* returns is the record it would return if it ran alone.
C11_CallsShareNoState ==
    /\ \A p, q \in Callers :
          p # q => calls[p].writes \cap (calls[q].reads \cup calls[q].writes)
                      \subseteq {TmpDir}
    /\ \A p \in Callers :
          calls[p].pc = "done" =>
              calls[p].result = RunAlone(config, video_generator, calls[p].task_id,
                                         calls[p].encoded, calls[p].start)

====
